---- MODULE Spec2Model ----
(***************************************************************************)
(* State-machine model of src/app.js, the German vocabulary drill: the     *)
(* per-item statistics, the recency/error weighting, the weighted sampler  *)
(* without replacement, the adaptive requeue, the round handlers           *)
(* (startRound, nextItem, onMeaningAnswer, onArticleAnswer), the DOM       *)
(* buttons that decide which handler the learner can reach, and the        *)
(* pending setTimeout(render, 320) callbacks.                              *)
(*                                                                         *)
(* Conventions.                                                            *)
(*  - An item is identified by its id, a positive integer; NoItem stands   *)
(*    for null/undefined.  Arrays are 1-based sequences, so a JavaScript   *)
(*    index i is the position i + 1 here.                                  *)
(*  - Time is counted in ticks of a quarter of an hour (TicksPerHour per   *)
(*    hour).  The recency factor is a numerator over FactorOne = 24 h in   *)
(*    ticks, which represents hours/24 exactly.  The error rate, the item  *)
(*    weight and the sampler's sum and walk are IEEE 754 doubles, rounded  *)
(*    after every operation as the code's arithmetic is.                   *)
(*  - Math.random() is a numerator R over RandDen, 0 <= R < RandDen; the   *)
(*    page's generator is the stream Rand(seed, 1), Rand(seed, 2), ... of  *)
(*    a seed fixed when the page is loaded, and rngPos counts its draws.   *)
(***************************************************************************)
EXTENDS Integers, Sequences, FiniteSets, TLC

\* ------------------------------------------------------------ constants
TARGET_SETS == 20
RECENT_PENALTY_HOURS == 24
NEW_ITEM_BONUS == 3
ERROR_WEIGHT == 4
SAME_TAG_MIN == 10
REQUEUE_MIN == 2
REQUEUE_MAX == 6
NoItem == 0

\* ------------------------------------------------------------ bounds
\* Catalogs of the session specification hold 0 .. MaxPool items.
MaxPool == 3
\* The round specification's catalog holds TARGET_SETS .. TARGET_SETS + MaxExtra items.
MaxExtra == 0
\* Wrong answers the learner gives in one behaviour.
MaxMisses == 2
\* Restart clicks in one behaviour.
MaxRestarts == 1
\* A round on a full catalog is restarted with at most this many items completed.
MaxDoneAtRestart == 0
\* Seeds of the page's random generator, and the resolution of one draw.
MaxSeeds == 2
RandDen == 4
\* Largest wrong count found in the stored statistics of a returning learner.
MaxStoredWrong == 9
\* Catalogs of the storage specification hold 0 .. MaxStoragePool items.
MaxStoragePool == 2
\* Bounds of the pure-function specification.
MaxWrongArg == 12
MaxPickPool == 3
MaxAgeHours == 26
MaxChoicePool == 4

\* ------------------------------------------------------------ units
TicksPerHour == 4
FactorOne == RECENT_PENALTY_HOURS * TicksPerHour
\* RECENT_MIN_FACTOR = 0.25, as a numerator over FactorOne.
RECENT_MIN_FACTOR == FactorOne \div 4
\* Date.now() when the page is loaded, in ticks.
BootTime == 40 * TicksPerHour
\* Time that passes before a Restart click: nothing, or half a day.
Elapsed == {0, 12 * TicksPerHour}

Min(a, b) == IF a <= b THEN a ELSE b
Max(a, b) == IF a >= b THEN a ELSE b
Range(s) == {s[i] : i \in DOMAIN s}

Distinct(s) == \A i, j \in DOMAIN s : i # j => s[i] # s[j]

\* Array.prototype.splice(at, 0, x) with a 0-based index at <= length.
InsertAt(s, at, x) == SubSeq(s, 1, at) \o <<x>> \o SubSeq(s, at + 1, Len(s))
\* Array.prototype.splice(at, 1) with a 0-based index at < length: the array left.
RemoveAt(s, at) == SubSeq(s, 1, at) \o SubSeq(s, at + 2, Len(s))
\* Array.prototype.slice(0, k).
Slice0(s, k) == SubSeq(s, 1, Min(Max(k, 0), Len(s)))

RECURSIVE FilterSeq(_, _)
\* Array.prototype.filter with the predicate given as the set of kept values.
FilterSeq(s, keep) ==
  IF s = <<>> THEN <<>>
  ELSE (IF Head(s) \in keep THEN <<Head(s)>> ELSE <<>>) \o FilterSeq(Tail(s), keep)

\* ------------------------------------------------------------ doubles
\* A JavaScript number (IEEE 754 double) that the weighting produces: the value
\* (-1)^neg * m * 2^e with m an odd natural of at most MantBits bits, written as
\* its limbs in base LimbBase, least significant first; 0 is the empty mantissa.
\* The operations round to nearest, ties to even, as the hardware does. (The
\* weights stay far from the subnormal and the overflow range.)
LimbBits == 15
LimbBase == 2^LimbBits
MantBits == 53
DblZero == [neg |-> FALSE, m |-> <<>>, e |-> 0]

RECURSIVE BitLen(_)
\* Number of bits of the non-negative integer d.
BitLen(d) == IF d = 0 THEN 0 ELSE 1 + BitLen(d \div 2)

RECURSIVE TrailingZeros(_)
\* Number of trailing zero bits of the positive integer d.
TrailingZeros(d) == IF d % 2 = 1 THEN 0 ELSE 1 + TrailingZeros(d \div 2)

RECURSIVE NatNorm(_)
\* The limbs without leading zero limbs.
NatNorm(a) ==
  IF a = <<>> \/ a[Len(a)] # 0 THEN a ELSE NatNorm(SubSeq(a, 1, Len(a) - 1))

RECURSIVE NatFromInt(_)
NatFromInt(n) ==
  IF n = 0 THEN <<>> ELSE <<n % LimbBase>> \o NatFromInt(n \div LimbBase)

RECURSIVE NatAdd(_, _, _)
\* a + b + c, c the carry.
NatAdd(a, b, c) ==
  IF a = <<>> /\ b = <<>> THEN (IF c = 0 THEN <<>> ELSE <<c>>)
  ELSE LET x == (IF a = <<>> THEN 0 ELSE Head(a)) + (IF b = <<>> THEN 0 ELSE Head(b)) + c
       IN <<x % LimbBase>> \o NatAdd(IF a = <<>> THEN a ELSE Tail(a),
                                      IF b = <<>> THEN b ELSE Tail(b), x \div LimbBase)

RECURSIVE NatSub(_, _, _)
\* a - b - c for a >= b + c, c the borrow; leading zero limbs are left in place.
NatSub(a, b, c) ==
  IF a = <<>> THEN <<>>
  ELSE LET x == Head(a) - (IF b = <<>> THEN 0 ELSE Head(b)) - c
       IN <<IF x < 0 THEN x + LimbBase ELSE x>>
          \o NatSub(Tail(a), IF b = <<>> THEN b ELSE Tail(b), IF x < 0 THEN 1 ELSE 0)

RECURSIVE NatMulLimb(_, _, _)
\* a * d + c for one limb d > 0 and a carry c.
NatMulLimb(a, d, c) ==
  IF a = <<>> THEN (IF c = 0 THEN <<>> ELSE <<c>>)
  ELSE LET x == Head(a) * d + c
       IN <<x % LimbBase>> \o NatMulLimb(Tail(a), d, x \div LimbBase)

RECURSIVE NatMul(_, _)
\* a * b for a > 0.
NatMul(a, b) ==
  IF b = <<>> THEN <<>>
  ELSE LET rest == NatMul(a, Tail(b))
           sh == IF rest = <<>> THEN <<>> ELSE <<0>> \o rest
       IN IF Head(b) = 0 THEN sh ELSE NatAdd(NatMulLimb(a, Head(b), 0), sh, 0)

RECURSIVE NatDivRem(_, _)
\* Quotient (leading zero limbs left in place) and remainder of a by the positive
\* integer q < LimbBase.
NatDivRem(a, q) ==
  IF a = <<>> THEN [quo |-> <<>>, rem |-> 0]
  ELSE LET hi == NatDivRem(Tail(a), q)
           x == hi.rem * LimbBase + Head(a)
       IN [quo |-> <<x \div q>> \o hi.quo, rem |-> x % q]

\* a * 2^k and floor(a / 2^k).
NatShl(a, k) ==
  IF a = <<>> THEN a
  ELSE [i \in 1..(k \div LimbBits) |-> 0] \o NatMulLimb(a, 2^(k % LimbBits), 0)
NatShr(a, k) ==
  LET t == SubSeq(a, (k \div LimbBits) + 1, Len(a))
      d == 2^(k % LimbBits)
  IN NatNorm([i \in 1..Len(t) |->
                (t[i] \div d) + (IF i < Len(t) THEN (t[i + 1] % d) * (LimbBase \div d) ELSE 0)])

\* Number of bits of a, bit j of a (bit 0 the lowest), and whether the k lowest bits
\* of a are all 0.
NatBits(a) == IF a = <<>> THEN 0 ELSE LimbBits * (Len(a) - 1) + BitLen(a[Len(a)])
NatBit(a, j) ==
  LET i == (j \div LimbBits) + 1
  IN IF i > Len(a) THEN 0 ELSE (a[i] \div 2^(j % LimbBits)) % 2
NatLowBitsZero(a, k) ==
  \A i \in 1..Len(a) : /\ i <= k \div LimbBits => a[i] = 0
                       /\ i = (k \div LimbBits) + 1 => a[i] % 2^(k % LimbBits) = 0

RECURSIVE NatTrailingZeros(_)
\* Number of trailing zero bits of a > 0.
NatTrailingZeros(a) ==
  IF Head(a) = 0 THEN LimbBits + NatTrailingZeros(Tail(a)) ELSE TrailingZeros(Head(a))

\* a < b, for limbs without leading zeros.
NatLess(a, b) ==
  IF Len(a) # Len(b) THEN Len(a) < Len(b)
  ELSE \E i \in 1..Len(a) : a[i] < b[i] /\ \A j \in (i + 1)..Len(a) : a[j] = b[j]

\* The double n * 2^e of a natural n > 0 of at most MantBits bits.
DblExact(n, e) ==
  LET z == NatTrailingZeros(n) IN [neg |-> FALSE, m |-> NatShr(n, z), e |-> e + z]

\* The double nearest to n * 2^e (ties to the even mantissa) for a natural n.
DblRound(n, e) ==
  IF n = <<>> THEN DblZero
  ELSE LET k == NatBits(n) - MantBits
       IN IF k <= 0 THEN DblExact(n, e)
          ELSE LET q == NatShr(n, k)
                   up == NatBit(n, k - 1) = 1 /\ (~NatLowBitsZero(n, k - 1) \/ NatBit(q, 0) = 1)
               IN DblExact(IF up THEN NatAdd(q, <<>>, 1) ELSE q, e + k)

\* Number(n) for an integer n.
DblFromInt(n) ==
  IF n < 0 THEN [DblRound(NatFromInt(-n), 0) EXCEPT !.neg = TRUE]
  ELSE DblRound(NatFromInt(n), 0)

\* p / q for integers p >= 0 and 0 < q < LimbBase: the quotient to MantBits + 2
\* bits or more, with one more bit that tells whether a remainder was left.
DblDivInt(p, q) ==
  IF p = 0 THEN DblZero
  ELSE LET s == MantBits + 2 + BitLen(q)
           d == NatDivRem(NatShl(NatFromInt(p), s), q)
       IN DblRound(NatAdd(NatShl(NatNorm(d.quo), 1), <<>>, IF d.rem = 0 THEN 0 ELSE 1), -s - 1)

\* a + b, a * b and a - b (for a >= b) of doubles >= 0.
DblAdd(a, b) ==
  IF a.m = <<>> THEN b
  ELSE IF b.m = <<>> THEN a
  ELSE LET lo == IF a.e <= b.e THEN a.e ELSE b.e
       IN DblRound(NatAdd(NatShl(a.m, a.e - lo), NatShl(b.m, b.e - lo), 0), lo)
DblMul(a, b) ==
  IF a.m = <<>> \/ b.m = <<>> THEN DblZero ELSE DblRound(NatMul(a.m, b.m), a.e + b.e)
DblSub(a, b) ==
  IF b.m = <<>> THEN a
  ELSE LET lo == IF a.e <= b.e THEN a.e ELSE b.e
       IN DblRound(NatNorm(NatSub(NatShl(a.m, a.e - lo), NatShl(b.m, b.e - lo), 0)), lo)

\* a < b and a <= b of doubles >= 0.
DblLess(a, b) ==
  IF b.m = <<>> THEN FALSE
  ELSE IF a.m = <<>> THEN TRUE
  ELSE LET ta == a.e + NatBits(a.m)
           tb == b.e + NatBits(b.m)
           lo == IF a.e <= b.e THEN a.e ELSE b.e
       IN IF ta # tb THEN ta < tb
          ELSE NatLess(NatShl(a.m, a.e - lo), NatShl(b.m, b.e - lo))
DblLeq(a, b) == ~DblLess(b, a)

\* Math.max(0, w).
DblMax0(w) == IF w.neg THEN DblZero ELSE w

\* ------------------------------------------------------------ randomness
\* The i-th Math.random() of the stream `seed`, as a numerator over RandDen.
Rand(seed, i) == (seed + i * (seed + 1)) % RandDen
Draws(seed, base, n) == [i \in 1..n |-> Rand(seed, base + i)]

RECURSIVE ShuffleFrom(_, _, _, _)
\* The loop of shuffle: i runs from length-1 down to 1 (0-based), the k-th draw
\* gives j = floor(random * (i + 1)), and a[i], a[j] are swapped.
\* (random is a multiple of 1 / RandDen with RandDen a power of two, so the double
\* product random * (i + 1) is exact and its floor is the integer quotient.)
ShuffleFrom(a, i, us, k) ==
  IF i <= 0 THEN a
  ELSE LET j == (us[k] * (i + 1)) \div RandDen
           b == [a EXCEPT ![i + 1] = a[j + 1], ![j + 1] = a[i + 1]]
       IN ShuffleFrom(b, i - 1, us, k + 1)

\* shuffle(arr): Fisher-Yates on a copy, with the draws us[1], us[2], ...
Shuffle(arr, us) == ShuffleFrom(arr, Len(arr) - 1, us, 1)

\* ------------------------------------------------------------ statistics
defaultStat ==
  [seen |-> 0, correctMeaning |-> 0, wrongMeaning |-> 0,
   correctArticle |-> 0, wrongArticle |-> 0, lastSeenAt |-> 0]

\* ensureStat(id) on the mapping st: the mapping with an entry for id.
ensureStat(st, id) ==
  IF id \in DOMAIN st THEN st
  ELSE [j \in DOMAIN st \cup {id} |-> IF j = id THEN defaultStat ELSE st[j]]

\* errorRate(st): the double wrong / total, 0 when nothing was answered.
errorRate(st) ==
  LET total == st.correctMeaning + st.wrongMeaning + st.correctArticle + st.wrongArticle
      wrong == st.wrongMeaning + st.wrongArticle
  IN IF total = 0 THEN DblZero ELSE DblDivInt(wrong, total)

\* A factor that rises linearly from RECENT_MIN_FACTOR to 1 over the window.
recencyFactor_linear(st, now) ==
  IF st.lastSeenAt = 0 THEN FactorOne
  ELSE LET ticks == now - st.lastSeenAt
       IN IF ticks >= RECENT_PENALTY_HOURS * TicksPerHour THEN FactorOne
          ELSE RECENT_MIN_FACTOR + ((FactorOne - RECENT_MIN_FACTOR) * ticks) \div FactorOne

\* recencyFactor(st) read at time now, as a numerator over FactorOne.
recencyFactor(st, now) ==
  IF st.lastSeenAt = 0 THEN FactorOne
  ELSE LET ticks == now - st.lastSeenAt
       IN IF ticks >= RECENT_PENALTY_HOURS * TicksPerHour THEN FactorOne
          ELSE Max(RECENT_MIN_FACTOR, ticks)

\* itemWeight(item) for an item whose statistics are st, as the double the code
\* returns: errBoost = 1.0 + (er * ERROR_WEIGHT), rec the double of hours / 24 (the
\* hours are a multiple of a quarter, hence exact) or 1.0, and the product
\* (newBonus * errBoost) * rec.
itemWeight(st, now) ==
  LET newBonus == DblFromInt(IF st.seen = 0 THEN NEW_ITEM_BONUS ELSE 1)
      er == errorRate(st)
      errBoost == DblAdd(DblFromInt(1), DblMul(er, DblFromInt(ERROR_WEIGHT)))
      rec == DblDivInt(recencyFactor(st, now), FactorOne)
  IN DblMul(DblMul(newBonus, errBoost), rec)

\* ------------------------------------------------------------ sampler
RECURSIVE SumClamped(_, _, _)
\* "for (const w of weights) sum += Math.max(0, w)" from the double sum on, over the
\* pool in its order.
SumClamped(pool, w, sum) ==
  IF pool = <<>> THEN sum
  ELSE SumClamped(Tail(pool), w, DblAdd(sum, DblMax0(w[Head(pool)])))

RECURSIVE WalkIdx(_, _, _, _)
\* The walk "r -= Math.max(0, weights[idx]); if (r <= 0) break" from idx on, r a
\* double >= 0 (the difference is <= 0 exactly when r <= the weight). Returns the
\* 0-based idx at which the loop stops (pool.length when it runs to the end).
WalkIdx(pool, w, r, idx) ==
  IF idx >= Len(pool) THEN idx
  ELSE LET wi == DblMax0(w[pool[idx + 1]])
       IN IF DblLeq(r, wi) THEN idx ELSE WalkIdx(pool, w, DblSub(r, wi), idx + 1)

RECURSIVE PickLoop(_, _, _, _, _, _, _)
\* The for-loop of pickWeightedUnique from iteration i on, d draws consumed so far
\* (an iteration whose weights sum to 0 consumes none); w[x] is the double weight
\* of x, and Math.random() is the double us[d + 1] / RandDen.
PickLoop(pool, picked, i, k, w, us, d) ==
  IF ~(i < k /\ Len(pool) > 0) THEN [picked |-> picked, pool |-> pool, used |-> d]
  ELSE LET sum == SumClamped(pool, w, DblZero)
       IN IF sum.m = <<>>
          THEN PickLoop(Tail(pool), Append(picked, Head(pool)), i + 1, k, w, us, d)
          ELSE LET idx == WalkIdx(pool, w, DblMul(DblDivInt(us[d + 1], RandDen), sum), 0)
                   at == Min(idx, Len(pool) - 1)
               IN PickLoop(RemoveAt(pool, at), Append(picked, pool[at + 1]),
                           i + 1, k, w, us, d + 1)

\* A sampler that works on the caller's array instead of a copy.
pickWeightedUnique_inPlace(items, k, w, us) ==
  LET r == PickLoop(items, <<>>, 0, k, w, us, 0)
  IN [picked |-> r.picked, items |-> r.pool, used |-> r.used]

\* pickWeightedUnique(items, k, weightFn): w[x] is weightFn(x), us the draws. The
\* result carries the picked items, the caller's array as the call leaves it (the
\* loop works on items.slice()), and the number of draws consumed.
pickWeightedUnique(items, k, w, us) ==
  LET r == PickLoop(items, <<>>, 0, k, w, us, 0)
  IN [picked |-> r.picked, items |-> items, used |-> r.used]

\* ------------------------------------------------------------ requeue distance
\* The offset without its lower clamp.
afterN_unclamped(wrong) == Min(REQUEUE_MAX, REQUEUE_MAX - (wrong \div 2))

\* afterN of requeueCurrentAdaptive for the wrong count it reads.
afterN(wrong) == Max(REQUEUE_MIN, Min(REQUEUE_MAX, REQUEUE_MAX - (wrong \div 2)))

\* ------------------------------------------------------------ catalog
\* vocab.json: the items are numbered 1 .. n in file order; article and tags of
\* item id.
Articles == <<"der", "die", "das">>
ArticleOf(id) == Articles[(id % 3) + 1]
TagsOf(id) == IF id % 2 = 1 THEN {"natur"} ELSE {"haus"}
Catalog(n) == [i \in 1..n |-> i]

\* intersectTags(aTags, bTags)
intersectTags(aTags, bTags) == \E t \in bTags : t \in aTags

\* A dedupe that keeps every entry.
Dedupe_keepAll(s) == s

RECURSIVE Dedupe(_)
\* Array.from(new Map(d.map(x => [x.id, x])).values()): first occurrences, in order.
Dedupe(s) ==
  IF s = <<>> THEN <<>>
  ELSE <<Head(s)>> \o Dedupe(FilterSeq(Tail(s), Range(Tail(s)) \ {Head(s)}))

\* buildMeaningChoices(item) on the catalog vocab; the shuffles consume the draws
\* Rand(seed, base + 1), Rand(seed, base + 2), ... in call order. The result carries
\* the choices and the number of draws consumed.
buildMeaningChoices(item, vocab, seed, base) ==
  LET ids == Range(vocab)
      others == FilterSeq(vocab, ids \ {item})
      sameTag == FilterSeq(vocab, {x \in ids \ {item} : intersectTags(TagsOf(x), TagsOf(item))})
      candidates == IF Len(sameTag) >= SAME_TAG_MIN THEN sameTag ELSE sameTag \o others
      diffArticle == FilterSeq(candidates, {x \in ids : ArticleOf(x) # ArticleOf(item)})
      pref == IF Len(diffArticle) >= 2 THEN diffArticle ELSE candidates
      n1 == Max(Len(pref) - 1, 0)
      first == Slice0(Dedupe(Slice0(Shuffle(pref, Draws(seed, base, n1)), 2)), 2)
      rest == FilterSeq(vocab, ids \ ({item} \cup Range(first)))
      n2 == IF Len(first) < 2 THEN Max(Len(rest) - 1, 0) ELSE 0
      distractors ==
        IF Len(first) < 2
        THEN first \o Slice0(Shuffle(rest, Draws(seed, base + n1, n2)), 2 - Len(first))
        ELSE first
      all == <<item>> \o distractors
      shown == Shuffle(all, Draws(seed, base + n1 + n2, Len(all) - 1))
  IN [choices |-> [i \in 1..Len(shown) |-> [id |-> shown[i], isCorrect |-> shown[i] = item]],
      used |-> n1 + n2 + Len(all) - 1]

\* ------------------------------------------------------------ program state
VARIABLES
  vocab,            \* state.vocab: the catalog, a sequence of item ids
  stats,            \* state.stats: id -> statistics record, for the ids that have one
  done,             \* state.done
  score,            \* state.score
  streak,           \* state.streak
  phase,            \* state.phase: "meaning" | "article"
  queue,            \* state.queue
  current,          \* state.current: an item id, or NoItem
  meaningChoices,   \* state.meaningChoices
  lock,             \* state.lock
  currentClue,      \* state.currentClue: the item whose clue is fixed, or NoItem for ""
  storage,          \* localStorage[STORAGE_KEY]: [ok, data]; ok = FALSE: missing or unparsable
  storageWorks,     \* whether localStorage.setItem succeeds (FALSE: it throws)
  now,              \* Date.now(), in ticks
  seed,             \* the seed of the page's Math.random
  rngPos,           \* the number of Math.random() calls so far
  timers,           \* pending setTimeout(render, 320) callbacks
  domChoices,       \* the .choiceBtn buttons of #choices, each with what its onclick passes
  choicesDisabled,  \* whether those buttons are disabled
  btnNextDisabled,  \* #btnNext.disabled
  phaseLabel,       \* #phaseLabel: "", "meaning", "article" or "Runde beendet"
  threw,            \* the last handler ended with an uncaught TypeError
  \* observation of the run (not read by any handler)
  lastEvent,        \* which handler ran last
  drawLog,          \* the answers recorded since the last dequeue: "M+", "M-", "A+", "A-"
  sampled,          \* the items of the round's initial queue
  completed,        \* items answered correctly in both phases within one draw, this round
  misses,           \* wrong answers so far
  restarts,         \* Restart clicks so far
  \* a single call of one of the pure functions (the function specification only)
  call,             \* the function called and its arguments
  result            \* what it returned, once it has

progVars == <<vocab, stats, done, score, streak, phase, queue, current, meaningChoices,
              lock, currentClue, storage, storageWorks, now, seed, rngPos, timers, domChoices, choicesDisabled,
              btnNextDisabled, phaseLabel, threw>>
obsVars == <<lastEvent, drawLog, sampled, completed, misses, restarts>>
fnVars == <<call, result>>
vars == <<progVars, obsVars, fnVars>>

\* The program, DOM and environment state as one record, for the handlers below.
Cur ==
  [vocab |-> vocab, stats |-> stats, done |-> done, score |-> score, streak |-> streak,
   phase |-> phase, queue |-> queue, current |-> current,
   meaningChoices |-> meaningChoices, lock |-> lock, currentClue |-> currentClue,
   storage |-> storage, storageWorks |-> storageWorks,
   now |-> now, seed |-> seed, rngPos |-> rngPos,
   timers |-> timers, domChoices |-> domChoices,
   choicesDisabled |-> choicesDisabled, btnNextDisabled |-> btnNextDisabled,
   phaseLabel |-> phaseLabel, threw |-> FALSE]

StateIs(s) ==
  /\ vocab = s.vocab /\ stats = s.stats /\ done = s.done /\ score = s.score
  /\ streak = s.streak /\ phase = s.phase /\ queue = s.queue /\ current = s.current
  /\ meaningChoices = s.meaningChoices /\ lock = s.lock /\ currentClue = s.currentClue
  /\ storage = s.storage /\ storageWorks = s.storageWorks
  /\ now = s.now /\ seed = s.seed /\ rngPos = s.rngPos
  /\ timers = s.timers
  /\ domChoices = s.domChoices /\ choicesDisabled = s.choicesDisabled
  /\ btnNextDisabled = s.btnNextDisabled /\ phaseLabel = s.phaseLabel /\ threw = s.threw

Becomes(s) ==
  /\ vocab' = s.vocab /\ stats' = s.stats /\ done' = s.done /\ score' = s.score
  /\ streak' = s.streak /\ phase' = s.phase /\ queue' = s.queue /\ current' = s.current
  /\ meaningChoices' = s.meaningChoices /\ lock' = s.lock /\ currentClue' = s.currentClue
  /\ storage' = s.storage /\ storageWorks' = s.storageWorks
  /\ now' = s.now /\ seed' = s.seed /\ rngPos' = s.rngPos
  /\ timers' = s.timers
  /\ domChoices' = s.domChoices /\ choicesDisabled' = s.choicesDisabled
  /\ btnNextDisabled' = s.btnNextDisabled /\ phaseLabel' = s.phaseLabel /\ threw' = s.threw

\* ------------------------------------------------------------ persistence
\* loadStats(): the stored mapping, or {} when it is missing or does not parse.
loadStats(store) == IF store.ok THEN store.data ELSE <<>>

\* A save that writes nothing.
saveStats_skip(s) == s

\* saveStats(): the write, or nothing when setItem throws (the catch swallows it).
saveStats(s) ==
  IF s.storageWorks THEN [s EXCEPT !.storage = [ok |-> TRUE, data |-> s.stats]] ELSE s

\* recordSeen(itemId)
recordSeen(s, itemId) ==
  LET st == ensureStat(s.stats, itemId)
  IN saveStats([s EXCEPT !.stats =
       [st EXCEPT ![itemId].seen = @ + 1, ![itemId].lastSeenAt = s.now]])

\* A recording that counts every answer as a meaning answer.
recordResult_meaningOnly(s, itemId, ph, isCorrect) ==
  LET st == ensureStat(s.stats, itemId)
      st2 == IF isCorrect THEN [st EXCEPT ![itemId].correctMeaning = @ + 1]
             ELSE [st EXCEPT ![itemId].wrongMeaning = @ + 1]
  IN saveStats([s EXCEPT !.stats = st2])

\* recordResult(itemId, phase, isCorrect)
recordResult(s, itemId, ph, isCorrect) ==
  LET st == ensureStat(s.stats, itemId)
      st2 == IF ph = "meaning"
             THEN (IF isCorrect THEN [st EXCEPT ![itemId].correctMeaning = @ + 1]
                   ELSE [st EXCEPT ![itemId].wrongMeaning = @ + 1])
             ELSE (IF isCorrect THEN [st EXCEPT ![itemId].correctArticle = @ + 1]
                   ELSE [st EXCEPT ![itemId].wrongArticle = @ + 1])
  IN saveStats([s EXCEPT !.stats = st2])

\* ------------------------------------------------------------ DOM
MeaningButton(ch) == [kind |-> "meaning", id |-> ch.id, isCorrect |-> ch.isCorrect, article |-> ""]
ArticleButton(a) == [kind |-> "article", id |-> NoItem, isCorrect |-> FALSE, article |-> a]

\* render(); choosing a clue consumes one draw.
render(s) ==
  LET s1 == [s EXCEPT !.btnNextDisabled = TRUE]
  IN IF s.current = NoItem THEN s1
     ELSE [s1 EXCEPT
            !.currentClue = IF @ = NoItem THEN s.current ELSE @,
            !.rngPos = IF s.currentClue = NoItem THEN @ + 1 ELSE @,
            !.phaseLabel = s.phase,
            !.domChoices =
               IF s.phase = "meaning"
               THEN [i \in 1..Len(s.meaningChoices) |-> MeaningButton(s.meaningChoices[i])]
               ELSE [i \in 1..Len(Articles) |-> ArticleButton(Articles[i])],
            !.choicesDisabled = FALSE]

\* disableChoices()
disableChoices(s) == [s EXCEPT !.choicesDisabled = TRUE]

\* ------------------------------------------------------------ requeue
\* A requeue that forgets the item.
requeue_drop(s) == s

\* A requeue that appends the item to the queue.
requeue_append(s) ==
  IF s.current = NoItem THEN s ELSE [s EXCEPT !.queue = Append(s.queue, s.current)]

\* A requeue that puts the item back at the front of the queue.
requeue_front(s) ==
  IF s.current = NoItem THEN s ELSE [s EXCEPT !.queue = <<s.current>> \o s.queue]

\* requeueCurrentAdaptive()
requeueCurrentAdaptive(s) ==
  IF s.current = NoItem THEN s
  ELSE LET st == ensureStat(s.stats, s.current)
           wrong == st[s.current].wrongMeaning + st[s.current].wrongArticle
           insertAt == Min(Len(s.queue), afterN(wrong))
       IN [s EXCEPT !.stats = st, !.queue = InsertAt(s.queue, insertAt, s.current)]

\* ------------------------------------------------------------ answers
\* The TypeError of reading state.current.id with no current item, after the lock
\* is taken and the buttons are disabled.
AnswerThrows(s) == [disableChoices([s EXCEPT !.lock = TRUE]) EXCEPT !.threw = TRUE]

\* A meaning handler that keeps the lock after a wrong answer.
onMeaningAnswer_keepLock(s, choice) ==
  IF s.lock THEN s
  ELSE IF s.current = NoItem THEN AnswerThrows(s)
  ELSE LET s1 == recordResult(disableChoices([s EXCEPT !.lock = TRUE]),
                              s.current, "meaning", choice.isCorrect)
       IN IF choice.isCorrect
          THEN [s1 EXCEPT !.score = @ + 2, !.streak = @ + 1, !.phase = "article",
                          !.lock = FALSE, !.timers = @ + 1]
          ELSE [requeueCurrentAdaptive([s1 EXCEPT !.score = Max(0, @ - 1), !.streak = 0])
                  EXCEPT !.btnNextDisabled = FALSE]

\* onMeaningAnswer(choice)
onMeaningAnswer(s, choice) ==
  IF s.lock THEN s
  ELSE IF s.current = NoItem THEN AnswerThrows(s)
  ELSE LET s1 == recordResult(disableChoices([s EXCEPT !.lock = TRUE]),
                              s.current, "meaning", choice.isCorrect)
       IN IF choice.isCorrect
          THEN [s1 EXCEPT !.score = @ + 2, !.streak = @ + 1, !.phase = "article",
                          !.lock = FALSE, !.timers = @ + 1]
          ELSE [requeueCurrentAdaptive([s1 EXCEPT !.score = Max(0, @ - 1), !.streak = 0])
                  EXCEPT !.btnNextDisabled = FALSE, !.lock = FALSE]

\* onArticleAnswer(article)
onArticleAnswer(s, article) ==
  IF s.lock THEN s
  ELSE IF s.current = NoItem THEN AnswerThrows(s)
  ELSE LET correct == (article = ArticleOf(s.current))
           s1 == recordResult(disableChoices([s EXCEPT !.lock = TRUE]),
                              s.current, "article", correct)
       IN IF correct
          THEN [s1 EXCEPT !.score = @ + 2, !.streak = @ + 1, !.done = @ + 1,
                          !.btnNextDisabled = FALSE, !.lock = FALSE]
          ELSE [requeueCurrentAdaptive([s1 EXCEPT !.score = Max(0, @ - 1), !.streak = 0])
                  EXCEPT !.btnNextDisabled = FALSE, !.lock = FALSE]

\* ------------------------------------------------------------ round
\* The test "state.done >= state.target" of nextItem; state.target is never assigned
\* and stays TARGET_SETS.
roundIsOver(s) == s.done >= TARGET_SETS

\* A dequeue that leaves the phase as the last item left it.
nextItem_keepPhase(s) ==
  IF roundIsOver(s)
  THEN [s EXCEPT !.phaseLabel = "Runde beendet", !.domChoices = <<>>,
                 !.btnNextDisabled = TRUE]
  ELSE LET shifted == IF s.queue = <<>> THEN NoItem ELSE Head(s.queue)
           s1 == [s EXCEPT !.current = shifted,
                           !.queue = IF s.queue = <<>> THEN <<>> ELSE Tail(s.queue),
                           !.currentClue = NoItem]
           m == buildMeaningChoices(shifted, s.vocab, s.seed, s.rngPos)
       IN IF shifted = NoItem
          THEN [s1 EXCEPT !.threw = TRUE]
          ELSE render([recordSeen(s1, shifted) EXCEPT
                 !.meaningChoices = m.choices, !.rngPos = @ + m.used])

\* nextItem()
nextItem(s) ==
  IF roundIsOver(s)
  THEN [s EXCEPT !.phaseLabel = "Runde beendet", !.domChoices = <<>>,
                 !.btnNextDisabled = TRUE]
  ELSE LET shifted == IF s.queue = <<>> THEN NoItem ELSE Head(s.queue)
           s1 == [s EXCEPT !.phase = "meaning", !.current = shifted,
                           !.queue = IF s.queue = <<>> THEN <<>> ELSE Tail(s.queue),
                           !.currentClue = NoItem]
           m == buildMeaningChoices(shifted, s.vocab, s.seed, s.rngPos)
       IN IF shifted = NoItem
          THEN [s1 EXCEPT !.threw = TRUE]
          ELSE render([recordSeen(s1, shifted) EXCEPT
                 !.meaningChoices = m.choices, !.rngPos = @ + m.used])

\* buildRoundQueue(): the state with every catalog item's statistics created, and
\* the queue it returns (out). (Values bound by a set constructor, as in
\* {F(x) : x \in {e}}, are computed once.)
buildRoundQueue(s) ==
  LET ids == Range(s.vocab)
      st == [j \in DOMAIN s.stats \cup ids |->
               IF j \in DOMAIN s.stats THEN s.stats[j] ELSE defaultStat]
      \* what is returned once the sampler has returned r
      Returned(r) ==
        LET n == Max(Len(r.items) - 1, 0)
            out == IF Len(r.picked) > 0 THEN r.picked
                   ELSE Slice0(Shuffle(r.items, Draws(s.seed, s.rngPos + r.used, n)),
                               TARGET_SETS)
            used == r.used + (IF Len(r.picked) > 0 THEN 0 ELSE n)
        IN [state |-> [s EXCEPT !.stats = st, !.vocab = r.items, !.rngPos = @ + used],
            out |-> out]
  IN CHOOSE b \in
       {Returned(r) :
          r \in {pickWeightedUnique(s.vocab, TARGET_SETS, w,
                                     Draws(s.seed, s.rngPos, TARGET_SETS)) :
                   w \in {[x \in ids |-> itemWeight(st[x], s.now)]}}}
       : TRUE

\* A round start that also clears the statistics.
startRound_resetStats(s) ==
  CHOOSE r \in
    {nextItem([b.state EXCEPT !.queue = b.out]) :
       b \in {buildRoundQueue([s EXCEPT !.done = 0, !.score = 0, !.streak = 0,
                                         !.phase = "meaning", !.stats = <<>>])}}
    : TRUE

\* startRound()
startRound(s) ==
  CHOOSE r \in
    {nextItem([b.state EXCEPT !.queue = b.out]) :
       b \in {buildRoundQueue([s EXCEPT !.done = 0, !.score = 0, !.streak = 0,
                                         !.phase = "meaning"])}}
    : TRUE

\* ------------------------------------------------------------ page load
\* What localStorage holds when the page is loaded: nothing (profile 0), or the
\* statistics of earlier sessions (profile 1), in which item i has been missed
\* (i - 1) % (MaxStoredWrong + 1) times and was last seen up to 29 hours ago.
StoredStat(i) ==
  LET w == (i - 1) % (MaxStoredWrong + 1)
      wm == w \div 2
      wa == w - wm
      ca == i % 2
      cm == wa + ca
      sn == cm + wm
  IN [seen |-> sn, correctMeaning |-> cm, wrongMeaning |-> wm,
      correctArticle |-> ca, wrongArticle |-> wa,
      lastSeenAt |-> IF sn = 0 THEN 0 ELSE BootTime - ((i * 7) % 30) * TicksPerHour]

Stored(n, profile) ==
  IF profile = 0 THEN [ok |-> FALSE, data |-> <<>>]
  ELSE [ok |-> TRUE, data |-> [i \in 1..n |-> StoredStat(i)]]

\* The page before init() runs: the state literal, the stored statistics, the
\* markup's buttons (nextDisabled: the disabled attribute of #btnNext), the seed of
\* the random generator and whether the storage accepts writes.
Page(store, nextDisabled, sd, works) ==
  [vocab |-> <<>>, stats |-> <<>>, done |-> 0, score |-> 0, streak |-> 0,
   phase |-> "meaning", queue |-> <<>>, current |-> NoItem, meaningChoices |-> <<>>,
   lock |-> FALSE, currentClue |-> NoItem, storage |-> store, storageWorks |-> works,
   now |-> BootTime,
   seed |-> sd, rngPos |-> 0, timers |-> 0, domChoices |-> <<>>, choicesDisabled |-> FALSE,
   btnNextDisabled |-> nextDisabled, phaseLabel |-> "", threw |-> FALSE]

\* init() on the page p with a catalog of n items: loadStats, the catalog, the
\* listeners, startRound.
init(p, n) ==
  startRound([p EXCEPT !.stats = loadStats(p.storage), !.vocab = Catalog(n)])

\* No function call under study, and no result yet.
NoCall ==
  [fn |-> "none", wA |-> 0, wB |-> 0, lastSeenAt |-> 0, now |-> 0,
   items |-> <<>>, k |-> 0, w |-> <<>>, us |-> <<>>, item |-> NoItem, seed |-> 0,
   base |-> 0]
NoResult ==
  [returned |-> FALSE, a |-> 0, b |-> 0, picked |-> <<>>, items |-> <<>>, choices |-> <<>>]

\* The round a startRound call left behind: what it sampled.
RoundItems(s) == Range(s.queue) \cup ({s.current} \ {NoItem})

\* The states init() leaves behind, for catalog sizes, stored profiles and storage
\* behaviours of the given sets.
InitWith(sizes, profiles, writes) ==
  \E n \in sizes, profile \in profiles, works \in writes, nd \in BOOLEAN,
     sd \in 0..(MaxSeeds - 1) :
    \E s \in {init(Page(Stored(n, profile), nd, sd, works), n)} :
      /\ StateIs(s)
      /\ lastEvent = "init"
      /\ drawLog = <<>>
      /\ sampled = RoundItems(s)
      /\ completed = {}
      /\ misses = 0
      /\ restarts = 0
      /\ call = NoCall
      /\ result = NoResult

\* A session on a short catalog.
Init == InitWith(0..MaxPool, 0..1, {TRUE})
\* A round on a catalog that fills the target.
InitRound == InitWith(TARGET_SETS..(TARGET_SETS + MaxExtra), 0..1, {TRUE})
\* A session on a short catalog whose storage may reject every write.
InitStorage == InitWith(0..MaxStoragePool, 0..1, BOOLEAN)
\* A first session on a short catalog: nothing is stored yet.
InitFresh == InitWith(0..MaxPool, {0}, {TRUE})

\* ------------------------------------------------------------ events
\* A click on the i-th choice button, a meaning button.
MeaningClick(i) ==
  LET b == domChoices[i]
      s == onMeaningAnswer(Cur, b)
  IN /\ b.kind = "meaning"
     /\ b.isCorrect \/ misses < MaxMisses
     /\ Becomes(s)
     /\ lastEvent' = "meaning"
     /\ drawLog' = Append(drawLog, IF b.isCorrect THEN "M+" ELSE "M-")
     /\ misses' = IF b.isCorrect THEN misses ELSE misses + 1
     /\ UNCHANGED <<sampled, completed, restarts, fnVars>>

\* A click on the i-th choice button, an article button.
ArticleClick(i) ==
  LET b == domChoices[i]
      s == onArticleAnswer(Cur, b.article)
      ok == s.done > done
  IN /\ b.kind = "article"
     /\ ok \/ misses < MaxMisses
     /\ Becomes(s)
     /\ lastEvent' = "article"
     /\ drawLog' = Append(drawLog, IF ok THEN "A+" ELSE "A-")
     /\ misses' = IF ok THEN misses ELSE misses + 1
     /\ completed' = IF ok /\ drawLog = <<"M+">> THEN completed \cup {current}
                     ELSE completed
     /\ UNCHANGED <<sampled, restarts, fnVars>>

\* The learner clicks an enabled meaning button.
ClickMeaning == ~choicesDisabled /\ \E i \in DOMAIN domChoices : MeaningClick(i)

\* The learner clicks an enabled article button.
ClickArticle == ~choicesDisabled /\ \E i \in DOMAIN domChoices : ArticleClick(i)

\* A click on #btnNext (Continue): the listener of init disables it and calls nextItem.
ClickNext ==
  /\ ~btnNextDisabled
  /\ Becomes(nextItem([Cur EXCEPT !.btnNextDisabled = TRUE]))
  /\ lastEvent' = "next"
  /\ drawLog' = IF done >= TARGET_SETS THEN drawLog ELSE <<>>
  /\ UNCHANGED <<sampled, completed, misses, restarts, fnVars>>

\* A click on #btnRestart, after dt ticks have passed.
ClickRestart ==
  /\ restarts < MaxRestarts
  /\ \E dt \in Elapsed :
       \E s \in {startRound([Cur EXCEPT !.now = @ + dt])} :
         /\ Becomes(s)
         /\ sampled' = RoundItems(s)
  /\ lastEvent' = "restart"
  /\ drawLog' = <<>>
  /\ completed' = {}
  /\ restarts' = restarts + 1
  /\ UNCHANGED <<misses, fnVars>>

\* A pending setTimeout(render, 320) callback runs.
FireTimer ==
  /\ timers > 0
  /\ Becomes(render([Cur EXCEPT !.timers = @ - 1]))
  /\ lastEvent' = "timer"
  /\ UNCHANGED <<drawLog, sampled, completed, misses, restarts, fnVars>>

Next == ClickMeaning \/ ClickArticle \/ ClickNext \/ ClickRestart \/ FireTimer
Spec == Init /\ [][Next]_vars

\* The same session with a storage that may be full or switched off.
SpecStorage == InitStorage /\ [][Next]_vars

\* A first session, starting from empty statistics.
SpecFresh == InitFresh /\ [][Next]_vars

\* One round played to its end: answers, Continue and the delayed render.
NextRound == ClickMeaning \/ ClickArticle \/ ClickNext \/ FireTimer
SpecRound == InitRound /\ [][NextRound]_vars

\* The learner picks the right button of the phase shown.
AnswerRight ==
  /\ ~choicesDisabled
  /\ \E i \in DOMAIN domChoices :
       \/ domChoices[i].isCorrect /\ MeaningClick(i)
       \/ current # NoItem /\ domChoices[i].article = ArticleOf(current) /\ ArticleClick(i)

\* A click on #btnRestart while a delayed render is pending, early in the round.
RestartPending == timers > 0 /\ done <= MaxDoneAtRestart /\ ClickRestart

\* A learner who answers right and restarts the round while a render is pending.
NextRestarted == AnswerRight \/ ClickNext \/ FireTimer \/ RestartPending
SpecRestarted == InitRound /\ [][NextRestarted]_vars

\* The round with a learner who ends up answering right, and an event loop that runs
\* every pending timer.
SpecRoundLive == SpecRound /\ WF_vars(FireTimer) /\ WF_vars(AnswerRight)

\* The learner presses Continue: #btnNext, which only a click (or a render) disables,
\* never stays enabled for ever.
PressesContinue == []<>btnNextDisabled

\* ------------------------------------------------------------ functions
\* The functions of the selection engine applied to arguments of their own, on a page
\* whose script has not started a round.
AfterNCalls ==
  {[NoCall EXCEPT !.fn = "afterN", !.wA = a, !.wB = b] :
     a \in 0..MaxWrongArg, b \in 0..MaxWrongArg}
\* lastSeenAt = 0 is the unset time stamp of defaultStat.
RecencyCalls ==
  {[NoCall EXCEPT !.fn = "recencyFactor", !.now = BootTime, !.lastSeenAt = l] :
     l \in {0} \cup {BootTime - q : q \in 0..(MaxAgeHours * TicksPerHour)}}
PickPools == {p \in UNION {[1..n -> 1..MaxPickPool] : n \in 0..MaxPickPool} : Distinct(p)}
PickWeights == [1..MaxPickPool -> {-1, 0, 2}]
PickCalls ==
  {[NoCall EXCEPT !.fn = "pickWeightedUnique", !.items = p, !.k = k, !.w = w,
                  !.us = Draws(sd, 0, MaxPickPool)] :
     p \in PickPools, k \in (-1)..(MaxPickPool + 1), w \in PickWeights,
     sd \in 0..(RandDen - 1)}

\* Catalogs for buildMeaningChoices: every short catalog over the ids that show each
\* combination of article and tag once, and catalogs in which SAME_TAG_MIN items or
\* more share the tag of an item.
ChoiceIds == 1..(2 * Len(Articles))
ChoiceCatalogs ==
  {v \in UNION {[1..n -> ChoiceIds] : n \in 1..MaxChoicePool} : Distinct(v)}
  \cup {[i \in 1..n |-> IF i <= 2 THEN 2 * i ELSE 2 * i - 5] :
          n \in (SAME_TAG_MIN + 2)..(SAME_TAG_MIN + 4)}
\* A call draws an item of the catalog, at some position of some random stream.
ChoiceCalls ==
  UNION {{[NoCall EXCEPT !.fn = "buildMeaningChoices", !.items = v, !.item = x,
                         !.seed = sd, !.base = b] :
            x \in Range(v), sd \in 0..(MaxSeeds - 1), b \in 0..(RandDen - 1)} :
         v \in ChoiceCatalogs}

InitPure ==
  /\ StateIs(Page(Stored(0, 0), TRUE, 0, TRUE))
  /\ lastEvent = "load" /\ drawLog = <<>> /\ sampled = {} /\ completed = {}
  /\ misses = 0 /\ restarts = 0
  /\ call \in AfterNCalls \cup RecencyCalls \cup PickCalls \cup ChoiceCalls
  /\ result = NoResult

CallAfterN ==
  /\ call.fn = "afterN" /\ ~result.returned
  /\ result' = [NoResult EXCEPT !.returned = TRUE, !.a = afterN(call.wA),
                                !.b = afterN(call.wB)]
  /\ UNCHANGED <<progVars, obsVars, call>>

CallRecencyFactor ==
  /\ call.fn = "recencyFactor" /\ ~result.returned
  /\ result' = [NoResult EXCEPT !.returned = TRUE,
        !.a = recencyFactor([defaultStat EXCEPT !.lastSeenAt = call.lastSeenAt], call.now)]
  /\ UNCHANGED <<progVars, obsVars, call>>

CallPickWeightedUnique ==
  /\ call.fn = "pickWeightedUnique" /\ ~result.returned
  /\ LET r == pickWeightedUnique(call.items, call.k,
                                 [x \in DOMAIN call.w |-> DblFromInt(call.w[x])], call.us)
     IN result' = [NoResult EXCEPT !.returned = TRUE, !.picked = r.picked,
                                   !.items = r.items]
  /\ UNCHANGED <<progVars, obsVars, call>>

CallBuildMeaningChoices ==
  /\ call.fn = "buildMeaningChoices" /\ ~result.returned
  /\ result' = [NoResult EXCEPT !.returned = TRUE,
        !.choices = buildMeaningChoices(call.item, call.items, call.seed, call.base).choices]
  /\ UNCHANGED <<progVars, obsVars, call>>

NextPure ==
  CallAfterN \/ CallRecencyFactor \/ CallPickWeightedUnique \/ CallBuildMeaningChoices
SpecPure == InitPure /\ [][NextPure]_vars

\* ------------------------------------------------------------ observations
RoundComplete == phaseLabel = "Runde beendet"
IsMiss(e) == e \in {"M-", "A-"}
LastIsMiss(log) == log # <<>> /\ IsMiss(log[Len(log)])
CountIn(log, es) == Cardinality({i \in DOMAIN log : log[i] \in es})
WrongOf(st, id) == st[id].wrongMeaning + st[id].wrongArticle

\* ------------------------------------------------------------ C1
\* C1 (round termination), its safety part: in a round on a catalog of at least 20
\* items the round-complete branch of nextItem is taken only with done = 20, and no
\* nextItem call finds the queue empty (no TypeError; whenever Continue can be
\* pressed with done < 20 the queue holds an item).
C1_ExactTarget ==
  /\ RoundComplete => done = TARGET_SETS
  /\ ~threw
  /\ (~btnNextDisabled /\ done < TARGET_SETS) => queue # <<>>

\* C1 in a round started by the page load, where no delayed render of an earlier
\* round is pending: the safety part holds, and with a learner who ends up answering
\* right and presses Continue the round reaches "Runde beendet" (SpecRoundLive).
C1_FromPageLoad == []C1_ExactTarget /\ (PressesContinue => <>RoundComplete)

\* ------------------------------------------------------------ C2
\* C2 (completion invariant): done grows only by 1, only in onArticleAnswer, and
\* only when the answers recorded since the item was dequeued are exactly one
\* correct meaning answer (so no miss, and no earlier article answer of this draw).
C2_CompletionInvariant ==
  [][done' > done =>
       (done' = done + 1 /\ lastEvent' = "article" /\ drawLog = <<"M+">>)]_vars

\* ------------------------------------------------------------ C3
\* C3 (items stay in the round): every item of the round's initial queue that has
\* not been answered correctly in both phases within one draw is the current item
\* or is in the queue.
C3_ItemsStay == \A i \in sampled \ completed : i = current \/ i \in Range(queue)
C3_Witness == sampled # {} /\ completed = sampled /\ misses > 0 /\ ~threw

\* ------------------------------------------------------------ C4
\* C4 (short pool): with fewer than 20 catalog items no handler ends in a TypeError
\* (nextItem never takes an item from an empty queue), and once every catalog item
\* is completed (at once for an empty catalog) nextItem shows "Runde beendet".
C4_ShortPool ==
  Len(vocab) < TARGET_SETS =>
    /\ ~threw
    /\ (lastEvent \in {"init", "restart", "next"} /\ done >= Len(vocab)) => RoundComplete

\* ------------------------------------------------------------ C5
\* C5 (one answer per presentation): between two dequeues at most one meaning answer
\* and at most one article answer are recorded.
C5_OneAnswerPerPresentation ==
  /\ CountIn(drawLog, {"M+", "M-"}) <= 1
  /\ CountIn(drawLog, {"A+", "A-"}) <= 1

\* ------------------------------------------------------------ C6
\* C6 (requeue bounds): for every wrong count w >= 0 the offset afterN is an integer
\* in [2, 6], it does not grow with w, it is 6 for w = 0 and 2 for every w >= 8.
C6_RequeueBounds ==
  (call.fn = "afterN" /\ result.returned) =>
    /\ result.a \in 2..6 /\ result.b \in 2..6
    /\ call.wA <= call.wB => result.a >= result.b
    /\ call.wA = 0 => result.a = 6
    /\ call.wA >= 8 => result.a = 2
C6_Witness ==
  /\ call.fn = "afterN" /\ result.returned
  /\ call.wA = 0 /\ result.a = 6 /\ call.wB = 10 /\ result.b = 2

\* ------------------------------------------------------------ C7
\* The offset the claim computes for a wrong count w: clamp(6 - floor(w / 2), 2, 6).
ClaimedOffset(w) == Max(2, Min(6, 6 - (w \div 2)))
MissStep == misses' = misses + 1

\* C7 as stated: a missed item whose wrong count before the answer is w goes to index
\* min(clamp(6 - floor(w / 2), 2, 6), queue length), the other items keeping their order.
C7_PriorCount ==
  [][MissStep =>
       queue' = InsertAt(queue,
                  Min(ClaimedOffset(WrongOf(stats, current)), Len(queue)), current)]_vars

\* C7 amended: the index is computed from the wrong count that includes the miss just
\* recorded, w + 1.
C7_RequeueIndex ==
  [][MissStep =>
       queue' = InsertAt(queue,
                  Min(ClaimedOffset(WrongOf(stats, current) + 1), Len(queue)), current)]_vars
\* An item missed with 4 earlier misses stands at index 4 of a longer queue.
C7_Witness ==
  /\ lastEvent \in {"meaning", "article"} /\ LastIsMiss(drawLog)
  /\ current # NoItem /\ WrongOf(stats, current) = 5
  /\ Len(queue) > 6 /\ queue[5] = current

\* ------------------------------------------------------------ C8
ContinueAfterMiss ==
  lastEvent' = "next" /\ LastIsMiss(drawLog) /\ drawLog' = <<>> /\ ~threw'

\* C8 as stated: the Continue step after a miss never dequeues the missed item.
C8_NeverRepresented == [][ContinueAfterMiss => current' # current]_vars

\* C8 amended: a miss leaves the item that stood at the front of the queue at the
\* front, and the Continue step after it dequeues that item, so the missed item is
\* not re-presented when another item stood at the front of the queue.
C8_NotBeforeTheFront ==
  [][/\ (MissStep /\ queue # <<>> /\ Head(queue) # current) => Head(queue') = Head(queue)
     /\ (ContinueAfterMiss /\ Head(queue) # current) => current' # current]_vars
\* The first item of a round of three was missed and another one is shown.
C8_Witness ==
  /\ lastEvent = "next" /\ ~threw /\ misses = 1 /\ done = 0 /\ restarts = 0
  /\ Len(vocab) = 3 /\ Len(queue) = 2 /\ current \notin Range(queue)

\* ------------------------------------------------------------ C9
\* C9 (sampling contract): pickWeightedUnique(pool, k, weightFn) on a pool of distinct
\* ids returns min(max(k, 0), |pool|) items, all from the pool and pairwise distinct,
\* and leaves the pool as it was; an empty pool or k <= 0 gives an empty result.
C9_SampleContract ==
  (call.fn = "pickWeightedUnique" /\ result.returned) =>
    /\ Len(result.picked) = Min(Max(call.k, 0), Len(call.items))
    /\ Range(result.picked) \subseteq Range(call.items)
    /\ Distinct(result.picked)
    /\ result.items = call.items
    /\ (call.items = <<>> \/ call.k <= 0) => result.picked = <<>>
\* Two of three items picked, one of them by the zero-sum fallback.
C9_Witness ==
  /\ call.fn = "pickWeightedUnique" /\ result.returned
  /\ Len(call.items) = 3 /\ call.k = 2 /\ Len(result.picked) = 2
  /\ call.w[call.items[1]] = 0 /\ call.w[call.items[2]] = 2 /\ call.w[call.items[3]] = -1
  /\ result.picked = <<call.items[2], call.items[1]>>

\* ------------------------------------------------------------ C10
\* The age of the call's item in ticks, and whether it lies inside the window.
AgeTicks == call.now - call.lastSeenAt
RecencyReturned == call.fn = "recencyFactor" /\ result.returned
InWindow == call.lastSeenAt # 0 /\ AgeTicks >= 0 /\ AgeTicks < RECENT_PENALTY_HOURS * TicksPerHour

\* C10 as stated: inside the window the factor is 0.25 + 0.75 * a / 24 (times
\* 4 * FactorOne: 4 * FactorOne / 4 + 3 * ticks); outside it or with no time stamp it
\* is 1; it is never below RECENT_MIN_FACTOR.
C10_LinearInterpolation ==
  RecencyReturned =>
    /\ InWindow => 4 * result.a = FactorOne + 3 * AgeTicks
    /\ ~InWindow => result.a = FactorOne
    /\ result.a >= RECENT_MIN_FACTOR

\* C10 amended: inside the window the factor is the larger of RECENT_MIN_FACTOR and
\* a / 24; outside it or with no time stamp it is 1; it is never below
\* RECENT_MIN_FACTOR.
C10_ClampedRatio ==
  RecencyReturned =>
    /\ InWindow => result.a = Max(RECENT_MIN_FACTOR, AgeTicks)
    /\ ~InWindow => result.a = FactorOne
    /\ result.a >= RECENT_MIN_FACTOR
\* An item seen three hours ago has the factor 0.25.
C10_Witness ==
  /\ RecencyReturned /\ InWindow
  /\ AgeTicks = 3 * TicksPerHour /\ 4 * result.a = FactorOne

\* ------------------------------------------------------------ C11
\* The statistics of item id in the mapping st; an item without an entry has the
\* counters of defaultStat.
StatOf(st, id) == IF id \in DOMAIN st THEN st[id] ELSE defaultStat
AnswerCounters == {"correctMeaning", "wrongMeaning", "correctArticle", "wrongArticle"}

\* C11 (counters are monotone and survive rounds): no step decreases seen or an
\* answer counter of any item, and a Restart leaves every counter of every item as it
\* was, except that the item it draws first has its seen count raised by one (and
\* its lastSeenAt set).
C11_CountersMonotone ==
  [][/\ \A id \in DOMAIN stats :
          /\ id \in DOMAIN stats'
          /\ \A c \in AnswerCounters \cup {"seen"} : stats'[id][c] >= stats[id][c]
     /\ lastEvent' = "restart" =>
          \A id \in DOMAIN stats \cup DOMAIN stats' :
            /\ \A c \in AnswerCounters : StatOf(stats', id)[c] = StatOf(stats, id)[c]
            /\ id # current' => StatOf(stats', id) = StatOf(stats, id)
            /\ id = current' => StatOf(stats', id).seen = StatOf(stats, id).seen + 1]_vars
\* A round was restarted and an item it did not draw first keeps its misses.
C11_Witness ==
  /\ lastEvent = "restart" /\ ~threw
  /\ \E id \in DOMAIN stats :
       id # current /\ stats[id].seen > 0 /\ stats[id].wrongMeaning + stats[id].wrongArticle > 0

\* ------------------------------------------------------------ C12
\* C12 (every mutation is saved; store failures are swallowed): between handlers,
\* when writes succeed, what loadStats would read back is state.stats; a write that
\* fails changes nothing and raises nothing (saveStats leaves the state as it is), and
\* a missing or unparsable stored value loads as the empty mapping.
C12_SavedAfterMutation ==
  /\ storageWorks => loadStats(storage) = stats
  /\ ~storageWorks => saveStats(Cur) = Cur
  /\ [saveStats(Cur) EXCEPT !.storage = storage] = Cur
  /\ ~storage.ok => loadStats(storage) = <<>>
\* A miss was recorded and written.
C12_Witness ==
  /\ storageWorks /\ lastEvent \in {"meaning", "article"} /\ LastIsMiss(drawLog)
  /\ current # NoItem /\ WrongOf(stats, current) > 0
  /\ storage.ok /\ storage.data = stats

\* ------------------------------------------------------------ C13
ChoicesReturned == call.fn = "buildMeaningChoices" /\ result.returned
\* The distractors among the choices returned.
Distractors == {result.choices[i].id : i \in {j \in DOMAIN result.choices : ~result.choices[j].isCorrect}}
\* The candidate set of the call: the items sharing a tag with the drawn item, or the
\* whole catalog without it when fewer than 10 share a tag.
SharesTag == {x \in Range(call.items) \ {call.item} : TagsOf(x) \cap TagsOf(call.item) # {}}
CandidateSet ==
  IF Cardinality(SharesTag) >= 10 THEN SharesTag ELSE Range(call.items) \ {call.item}
OtherArticle(S) == {x \in S : ArticleOf(x) # ArticleOf(call.item)}

\* C13 (distractor preference): when the candidate set holds at least 2 distinct items
\* whose article differs from the drawn item's, both distractors have an article
\* different from the drawn item's.
C13_DistractorPreference ==
  (ChoicesReturned /\ Cardinality(OtherArticle(CandidateSet)) >= 2) =>
    \A d \in Distractors : ArticleOf(d) # ArticleOf(call.item)

\* ------------------------------------------------------------ C14
\* C14 (three options): on a catalog of at least 3 items buildMeaningChoices returns
\* exactly 3 options with pairwise distinct ids, exactly one flagged isCorrect, which
\* is the drawn item; the two others are catalog items different from it.
C14_ThreeOptions ==
  (ChoicesReturned /\ Len(call.items) >= 3) =>
    /\ Len(result.choices) = 3
    /\ \A i, j \in DOMAIN result.choices :
         i # j => result.choices[i].id # result.choices[j].id
    /\ \A i \in DOMAIN result.choices :
         result.choices[i].isCorrect <=> result.choices[i].id = call.item
    /\ \E i \in DOMAIN result.choices : result.choices[i].isCorrect
    /\ Distractors \subseteq Range(call.items) \ {call.item}
    /\ Cardinality(Distractors) = 2
\* More than SAME_TAG_MIN items share the drawn item's tag and three options came back.
C14_Witness ==
  /\ ChoicesReturned /\ Cardinality(SharesTag) >= SAME_TAG_MIN
  /\ Len(result.choices) = 3 /\ Cardinality(Distractors) = 2

\* ------------------------------------------------------------ C15
\* The queue and current item of a fresh sample: distinct items, as many as the
\* target or the catalog allows, the first of them drawn.
FreshSample(q, cur, v) ==
  /\ Distinct(q) /\ cur \notin Range(q)
  /\ Range(q) \cup ({cur} \ {NoItem}) \subseteq Range(v)
  /\ Len(q) + (IF cur = NoItem THEN 0 ELSE 1) = Min(TARGET_SETS, Len(v))

\* C15 (RoundComplete is terminal; only Restart leaves it): once the round-complete
\* branch was taken, a step that is not a Restart leaves the round complete and
\* changes neither queue, current item, done nor the statistics; a Restart, from any
\* state, sets done, score and streak to 0, phase to meaning, and replaces the queue
\* by a fresh sample.
C15_TerminalUntilRestart ==
  [][/\ (RoundComplete /\ lastEvent' # "restart") =>
          (RoundComplete' /\ UNCHANGED <<queue, current, done, stats>>)
     /\ lastEvent' = "restart" =>
          /\ done' = 0 /\ score' = 0 /\ streak' = 0 /\ phase' = "meaning"
          /\ FreshSample(queue', current', vocab')]_vars

\* ------------------------------------------------------------ C16
\* A step in which nextItem takes an item from the queue: a Restart, or a Continue
\* with the round not over.
Dequeues == lastEvent' = "restart" \/ (lastEvent' = "next" /\ ~roundIsOver(Cur))

\* C16 (phase ordering): every dequeue leaves the phase at meaning, also for an item
\* drawn again after a miss in either phase; the phase becomes article only by a
\* correct meaning answer, for the item that was current when it was given; and the
\* phase is article only while a correct meaning answer of this draw is on record.
C16_PhaseOrdering ==
  [][/\ Dequeues => phase' = "meaning"
     /\ (phase # "article" /\ phase' = "article") =>
          /\ lastEvent' = "meaning" /\ drawLog' = Append(drawLog, "M+")
          /\ current # NoItem /\ current' = current
     /\ phase' = "article" =>
          /\ current' # NoItem /\ \E i \in DOMAIN drawLog' : drawLog'[i] = "M+"
          /\ phase = "article" => current' = current]_vars
\* The only item of the catalog was missed in the article phase and is drawn again,
\* in the meaning phase.
C16_Witness ==
  /\ lastEvent = "next" /\ ~threw /\ Len(vocab) = 1 /\ misses = 1 /\ restarts = 0
  /\ current # NoItem /\ stats[current].wrongArticle = 1 /\ phase = "meaning"
  /\ phaseLabel = "meaning"

\* ------------------------------------------------------------ C17
\* The statistics mappings a and b agree on every item but id.
SameButFor(a, b, id) ==
  \A j \in (DOMAIN a \cup DOMAIN b) \ {id} : StatOf(a, j) = StatOf(b, j)
\* The answer counter an answer in phase ph must raise.
CounterFor(ph, isCorrect) ==
  IF ph = "meaning" THEN (IF isCorrect THEN "correctMeaning" ELSE "wrongMeaning")
  ELSE (IF isCorrect THEN "correctArticle" ELSE "wrongArticle")
\* A step in which an answer handler records an answer, and whether it was right.
AnswerStep == lastEvent' \in {"meaning", "article"} /\ ~threw' /\ ~lock
AnsweredRight == drawLog'[Len(drawLog')] \in {"M+", "A+"}

\* C17 (recording frame): a dequeue raises the seen count of the item it draws by
\* exactly 1 and changes no answer counter and no other item's statistics; a
\* processed answer raises exactly one answer counter of the current item by exactly
\* 1, the one of the active phase and of the answer's correctness, and leaves its seen
\* count, its lastSeenAt and every other item's statistics as they were.
C17_RecordingFrame ==
  [][/\ (Dequeues /\ ~threw') =>
          /\ current' \in DOMAIN stats'
          /\ stats'[current'].seen = StatOf(stats, current').seen + 1
          /\ \A c \in AnswerCounters : stats'[current'][c] = StatOf(stats, current')[c]
          /\ SameButFor(stats, stats', current')
     /\ AnswerStep =>
          /\ current' = current /\ current \in DOMAIN stats'
          /\ \A c \in AnswerCounters :
               stats'[current][c] = StatOf(stats, current)[c]
                 + (IF c = CounterFor(phase, AnsweredRight) THEN 1 ELSE 0)
          /\ stats'[current].seen = StatOf(stats, current).seen
          /\ stats'[current].lastSeenAt = StatOf(stats, current).lastSeenAt
          /\ SameButFor(stats, stats', current)]_vars
\* An item missed in the meaning phase of its first draw is drawn again: seen twice,
\* one wrong meaning answer, nothing else.
C17_Witness ==
  /\ lastEvent = "next" /\ ~threw /\ restarts = 0 /\ current # NoItem
  /\ stats[current].seen = 2 /\ stats[current].wrongMeaning = 1
  /\ stats[current].correctMeaning = 0 /\ stats[current].wrongArticle = 0
  /\ stats[current].correctArticle = 0

\* ------------------------------------------------------------ C18
\* The current item still awaits an answer: it was dequeued, and neither a miss nor a
\* correct article answer has been recorded for this draw.
AwaitsAnswer ==
  /\ current # NoItem /\ ~RoundComplete
  /\ \A i \in DOMAIN drawLog : drawLog[i] = "M+"

\* C18 (queue shape): each item occurs at most once in the queue; the current item
\* is not in the queue while it awaits an answer; the queue is never longer than
\* target minus done, nor longer than the round's initial queue.
C18_QueueShape ==
  /\ Distinct(queue)
  /\ AwaitsAnswer => current \notin Range(queue)
  /\ Len(queue) <= TARGET_SETS - done
  /\ Len(queue) <= Cardinality(sampled)

\* ------------------------------------------------------------ C19
\* C19 (counter ordering): starting from empty statistics, for every item the article
\* answers recorded do not outnumber the correct meaning answers, and the meaning
\* answers recorded do not outnumber the times the item was seen.
C19_CounterOrdering ==
  \A id \in DOMAIN stats :
    /\ stats[id].correctArticle + stats[id].wrongArticle <= stats[id].correctMeaning
    /\ stats[id].correctMeaning + stats[id].wrongMeaning <= stats[id].seen

\* ------------------------------------------------------------ C20
\* C20 (the lock is free between handlers): state.lock is false in every state a
\* handler, a timer callback or a Restart leaves behind, so it is false whenever an
\* answer handler is entered, the early return on the lock is never taken, and no
\* answer handler ends in the TypeError that would leave the lock set.
C20_LockFree ==
  /\ ~lock
  /\ lastEvent \in {"meaning", "article"} => ~threw
  /\ (~choicesDisabled /\ domChoices # <<>>) => current # NoItem
\* A wrong article answer after a correct meaning answer was processed and the lock
\* is free again.
C20_Witness ==
  /\ lastEvent = "article" /\ drawLog = <<"M+", "A-">> /\ ~lock
  /\ choicesDisabled /\ ~btnNextDisabled /\ current \in Range(queue)

====
